---- MODULE Spec2Model ----
\* Unit of Work (package uow): the registry of repository factories held by a
\* UnitOfWork, the Transaction scope built for each Do call, and the
\* begin / fn / commit / deferred-rollback protocol of UnitOfWork.Do.
\*
\* database/sql is outside the package: BeginTx, Commit and Rollback are modelled
\* as an environment that picks, at each call site of uow.go, one of the results
\* the call can give (success or an error), and that applies a transaction's
\* writes to the committed data exactly when its Commit succeeds.
\*
\* Spec runs Do calls concurrently with the registry left alone meanwhile;
\* SpecSeq runs one Do at a time with registry calls between calls and while
\* fn runs; SpecTyped is SpecSeq with fn calling GetAs as well; LiveSpec is
\* SpecSeq with the fairness of Do's own steps.
EXTENDS Integers, Sequences, FiniteSets, TLC

\* ---------------------------------------------------------------- bounds
\* Number of Do invocations, numbered in the order they begin.
MaxCalls == 2
\* Number of operations (Get on the scope, statements through a repository)
\* fn performs before it returns or panics.
MaxFnOps == 2

\* ---------------------------------------------------------------- values
Calls == 1..MaxCalls

\* The goroutines that call Do: as many calls can be in flight at once.
Goroutines == {"g1", "g2"}

\* *sql.Tx handles: BeginTx returns a fresh one on every success.
TxIds == 1..MaxCalls
NoTx == 0

\* Go maps are reference values: a Transaction holds the same map object as
\* the UnitOfWork until Clear makes the UnitOfWork point to a new one.
MapIds == 1..(MaxCalls + 1)
NoMap == 0

Names == {"ProductRepository", "OrderRepository"}
Factories == {"NewProductRepository", "NewOrderRepository"}
NoFactory == "unbound"

\* The types GetAs is instantiated with: the two repository types, and the
\* interface type Repository (any), which every repository satisfies.
Types == {"*ProductRepository", "*OrderRepository", "Repository"}

\* The dynamic type of what a factory returns.
TypeOf(factory) ==
    IF factory = "NewProductRepository" THEN "*ProductRepository" ELSE "*OrderRepository"

\* Rows of the database a repository statement can write.
Keys == {"products"}
\* Value of a row nobody has written.
Untouched == 0

Nil == "nil"
ErrRepositoryNotRegistered == "repository not registered"
ErrRepositoryAlreadyRegistered == "repository already registered"
ErrInvalidRepositoryType == "invalid repository type"

\* Errors of the collaborators (database/sql, the caller's fn).
ErrBegin == "begin failed"
ErrCommit == "commit failed"
ErrRollback == "rollback failed"
ErrTxDone == "sql: transaction has already been committed or rolled back"
ErrFn == "fn failed"
Panic == "panic"
NotYet == "-"

\* e is an error value (not nil, not a panic, not "no value yet").
IsError(e) == e \notin {NotYet, Nil, Panic}

EmptyMap == [n \in Names |-> NoFactory]

VARIABLES
    heap,          \* map objects: MapIds -> [Names -> Factories \cup {NoFactory}]
    repositories,  \* UnitOfWork.repositories: the map object the runner points to
    last,          \* the last call of Register, Remove, Has or Clear, and what
                   \* it returned
    registered,    \* history of the calls' results: for each name, the factory
                   \* of the Register that returned nil and that no Remove
                   \* returning nil and no Clear has followed
    txState,       \* each handle: "unused", "open", "committed", "rolledback",
                   \* "aborted", and "gone" once its Do call is over
    txWrites,      \* each handle: the rows written through it (kept when it
                   \* commits, dropped when it is rolled back)
    db,            \* committed data: Keys -> the handle whose write is stored
    call           \* each Do invocation: its position and its local variables

vars == <<heap, repositories, last, registered, txState, txWrites, db, call>>

NoScope == [tx |-> NoTx, repositories |-> NoMap]

\* A repository instance: the factory that built it, the handle it was built
\* for, and which construction (of its scope) it is. Each factory call builds
\* a new instance.
NoRepository == [factory |-> NoFactory, tx |-> NoTx, id |-> 0]

IdleCall ==
    [pc |-> "Idle", tx |-> NoTx, scope |-> NoScope, result |-> NotYet,
     beginRet |-> NotYet, fnRet |-> NotYet, commitRet |-> NotYet,
     rollbackRet |-> NotYet, nBegin |-> 0, nFn |-> 0, nCommit |-> 0,
     nRollback |-> 0, ops |-> 0, made |-> 0, lastErr |-> Nil,
     repository |-> NoRepository]

NoOp == [op |-> "none", ret |-> Nil]

Init ==
    /\ heap = [m \in MapIds |-> EmptyMap]
    /\ repositories = 1
    /\ last = NoOp
    /\ registered = EmptyMap
    /\ txState = [t \in TxIds |-> "unused"]
    /\ txWrites = [t \in TxIds |-> {}]
    /\ db = [k \in Keys |-> Untouched]
    /\ call = [c \in Calls |-> IdleCall]

\* The Do calls that have begun a transaction and not yet returned.
InFlight == {c \in Calls : call[c].pc \in {"Begun", "Running", "Committing", "Deferred"}}

\* ---------------------------------------------------------------- registry
Bound(m, name) == heap[m][name] # NoFactory

Has(name) == Bound(repositories, name)

registryVars == <<heap, repositories>>
dbVars == <<txState, txWrites, db>>

\* The history of results once a Register or Remove of name has returned:
\* a call that returned nil is recorded, a refused call is not.
Noted(name, factory) ==
    registered' = IF last'.ret = Nil
                  THEN [registered EXCEPT ![name] = factory]
                  ELSE registered

\* Mutant: Register stores the factory without looking for an earlier binding.
Register_overwrite(name, factory) ==
    /\ heap' = [heap EXCEPT ![repositories][name] = factory]
    /\ last' = [op |-> "Register", ret |-> Nil]
    /\ Noted(name, factory)
    /\ UNCHANGED <<repositories, dbVars, call>>

\* uow.go:92-99
Register(name, factory) ==
    /\ IF Has(name)
       THEN /\ last' = [op |-> "Register", ret |-> ErrRepositoryAlreadyRegistered]
            /\ UNCHANGED heap
       ELSE /\ heap' = [heap EXCEPT ![repositories][name] = factory]
            /\ last' = [op |-> "Register", ret |-> Nil]
    /\ Noted(name, factory)
    /\ UNCHANGED <<repositories, dbVars, call>>

\* Mutant: Remove looks the name up and returns nil without deleting it.
Remove_noDelete(name) ==
    /\ last' = [op |-> "Remove",
                ret |-> IF Has(name) THEN Nil ELSE ErrRepositoryNotRegistered]
    /\ Noted(name, NoFactory)
    /\ UNCHANGED <<registryVars, dbVars, call>>

\* Mutant: Remove of a bound name empties the map.
Remove_all(name) ==
    /\ IF ~Has(name)
       THEN /\ last' = [op |-> "Remove", ret |-> ErrRepositoryNotRegistered]
            /\ UNCHANGED heap
       ELSE /\ heap' = [heap EXCEPT ![repositories] = EmptyMap]
            /\ last' = [op |-> "Remove", ret |-> Nil]
    /\ Noted(name, NoFactory)
    /\ UNCHANGED <<repositories, dbVars, call>>

\* Mutant: Remove of a name that is not bound returns nil (delete on a missing
\* key is a no-op in Go, so the lookup before it is easy to leave out).
Remove_unchecked(name) ==
    /\ heap' = [heap EXCEPT ![repositories][name] = NoFactory]
    /\ last' = [op |-> "Remove", ret |-> Nil]
    /\ Noted(name, NoFactory)
    /\ UNCHANGED <<repositories, dbVars, call>>

\* uow.go:103-110
Remove(name) ==
    /\ IF ~Has(name)
       THEN /\ last' = [op |-> "Remove", ret |-> ErrRepositoryNotRegistered]
            /\ UNCHANGED heap
       ELSE /\ heap' = [heap EXCEPT ![repositories][name] = NoFactory]
            /\ last' = [op |-> "Remove", ret |-> Nil]
    /\ Noted(name, NoFactory)
    /\ UNCHANGED <<repositories, dbVars, call>>

\* uow.go:114-117
HasCall(name) ==
    /\ last' = [op |-> "Has", ret |-> IF Has(name) THEN "true" ELSE "false"]
    /\ UNCHANGED <<registryVars, registered, dbVars, call>>

\* The map objects held by the scope of a Do whose fn is running.
Held(calls) ==
    {calls[c].scope.repositories : c \in {x \in Calls : calls[x].pc = "Running"}}

\* Garbage collection: a map object neither the runner (ptr) nor a scope
\* refers to is gone; its slot is kept empty so that make() can hand it out
\* again.
Collect(h, ptr, calls) ==
    [m \in MapIds |-> IF m \in Held(calls) \cup {ptr} THEN h[m] ELSE EmptyMap]

\* make(map[RepositoryName]RepositoryFactory): a fresh, empty map object. The
\* runner's old map is garbage after the assignment unless a scope holds it,
\* so its slot may be the one handed out.
MakeMap ==
    CHOOSE m \in MapIds \ Held(call) : \A o \in MapIds \ Held(call) : m <= o

\* Mutant: Clear deletes the keys of the map in place instead of making a new
\* map.
Clear_deleteInPlace ==
    /\ heap' = [heap EXCEPT ![repositories] = EmptyMap]
    /\ last' = [op |-> "Clear", ret |-> Nil]
    /\ registered' = EmptyMap
    /\ UNCHANGED <<repositories, dbVars, call>>

\* Mutant: Clear has a value receiver, so the new map is assigned to a copy of
\* the UnitOfWork and the runner keeps its bindings.
Clear_valueReceiver ==
    /\ last' = [op |-> "Clear", ret |-> Nil]
    /\ registered' = EmptyMap
    /\ UNCHANGED <<registryVars, dbVars, call>>

\* uow.go:120-122
Clear ==
    /\ repositories' = MakeMap
    /\ heap' = [Collect(heap, MakeMap, call) EXCEPT ![MakeMap] = EmptyMap]
    /\ last' = [op |-> "Clear", ret |-> Nil]
    /\ registered' = EmptyMap
    /\ UNCHANGED <<dbVars, call>>

\* ---------------------------------------------------------------- scope
NewTransaction(tx, repos) == [tx |-> tx, repositories |-> repos]

\* The handle the latest successful BeginTx returned.
LatestTx ==
    IF \A t \in TxIds : txState[t] = "unused" THEN NoTx
    ELSE CHOOSE t \in TxIds :
            /\ txState[t] # "unused"
            /\ \A u \in TxIds : txState[u] # "unused" => u <= t

\* Mutant: the handle is kept in a field of the shared UnitOfWork, and Get
\* passes that field to the factory.
TransactionGet_sharedTx(t, name, made) ==
    IF Bound(t.repositories, name)
    THEN [repository |-> [factory |-> heap[t.repositories][name], tx |-> LatestTx,
                          id |-> made + 1],
          err |-> Nil]
    ELSE [repository |-> NoRepository, err |-> ErrRepositoryNotRegistered]

\* Mutant: the scope keeps the instances it builds, and a Get after the first
\* returns a kept one.
TransactionGet_cached(t, name, made) ==
    IF Bound(t.repositories, name)
    THEN [repository |-> [factory |-> heap[t.repositories][name], tx |-> t.tx,
                          id |-> IF made > 0 THEN made ELSE 1],
          err |-> Nil]
    ELSE [repository |-> NoRepository, err |-> ErrRepositoryNotRegistered]

\* Mutant: a name that is not bound gives a nil repository and a nil error.
TransactionGet_nilError(t, name, made) ==
    IF Bound(t.repositories, name)
    THEN [repository |-> [factory |-> heap[t.repositories][name], tx |-> t.tx,
                          id |-> made + 1],
          err |-> Nil]
    ELSE [repository |-> NoRepository, err |-> Nil]

\* Transaction.Get: the repository built by the factory bound to name, called
\* with the scope's handle, or ErrRepositoryNotRegistered. made is the number
\* of instances built before the call.
TransactionGet(t, name, made) ==
    IF Bound(t.repositories, name)
    THEN [repository |-> [factory |-> heap[t.repositories][name], tx |-> t.tx,
                          id |-> made + 1],
          err |-> Nil]
    ELSE [repository |-> NoRepository, err |-> ErrRepositoryNotRegistered]

\* repository.(T): the assertion holds when the repository's dynamic type is T
\* or T is an interface it satisfies.
Assignable(repository, T) ==
    /\ repository # NoRepository
    /\ T \in {TypeOf(repository.factory), "Repository"}

\* Mutant: the result of the type assertion is not looked at.
GetAs_uncheckedCast(t, name, T, made) ==
    LET r == TransactionGet(t, name, made) IN
    IF r.err # Nil
    THEN [repository |-> NoRepository, err |-> r.err, made |-> made]
    ELSE [repository |-> IF Assignable(r.repository, T) THEN r.repository ELSE NoRepository,
          err |-> Nil, made |-> r.repository.id]

\* uow.go:53-65: GetAs[T](t, name). made is the number of instances built in
\* the scope, before the call in the argument and after it in the result.
GetAs(t, name, T, made) ==
    LET r == TransactionGet(t, name, made) IN
    IF r.err # Nil
    THEN [repository |-> NoRepository, err |-> r.err, made |-> made]
    ELSE IF ~Assignable(r.repository, T)
         THEN [repository |-> NoRepository, err |-> ErrInvalidRepositoryType,
               made |-> r.repository.id]
         ELSE [repository |-> r.repository, err |-> Nil, made |-> r.repository.id]

\* ---------------------------------------------------------------- database/sql
TxOpen(t) == t # NoTx /\ txState[t] = "open"

\* The handle BeginTx returns: one no earlier BeginTx returned.
FreshTx == CHOOSE t \in TxIds : txState[t] = "unused" /\ \A u \in TxIds : u < t => txState[u] # "unused"

\* Committed data once the writes made through handle t are applied.
Apply(t) == [k \in Keys |-> IF k \in txWrites[t] THEN t ELSE db[k]]

\* ---------------------------------------------------------------- Do
\* Mutant: the error of BeginTx is not checked.
AfterBegin_unchecked(err) == "Begun"

\* uow.go:134-137: after BeginTx, return its error or go on.
AfterBegin(err) == IF err # Nil THEN "Returned" ELSE "Begun"

\* Mutant: the error of BeginTx is replaced by an error of the package.
ResultAfterBegin_replaced(err) == "transaction begin error"

\* uow.go:136: what Do returns when BeginTx failed.
ResultAfterBegin(err) == err

\* Mutant: fn's error is not checked, Commit is always called.
AfterFn_alwaysCommit(err) == "Committing"

\* Mutant: Do returns right after fn, Commit is never called.
AfterFn_neverCommit(err) == "Deferred"

\* Mutant: the test of fn's error is inverted.
AfterFn_inverted(err) == IF err = Nil THEN "Deferred" ELSE "Committing"

\* uow.go:141-145: after fn, return its error or commit.
AfterFn(err) == IF err # Nil THEN "Deferred" ELSE "Committing"

\* uow.go:142: what Do returns when fn failed.
ResultAfterFn(err) == err

\* Mutant: the error of Commit is dropped.
ResultAfterCommit_dropped(err) == Nil

\* uow.go:145-146: what Do returns after the Commit call.
ResultAfterCommit(err) == err

\* Mutant: the deferred call stores a Rollback error in Do's result.
ResultAfterRollback_override(result, rollbackErr) ==
    IF rollbackErr \notin {Nil, ErrTxDone} THEN rollbackErr ELSE result

\* uow.go:138: the deferred call discards what Rollback returns.
ResultAfterRollback(result, rollbackErr) == result

\* uow.go:134-138: BeginTx, return on failure, defer the rollback.
DoBegin(c) ==
    /\ call[c].pc = "Idle"
    /\ \A d \in Calls : d < c => call[d].pc # "Idle"
    /\ \E err \in {Nil, ErrBegin} :
        /\ call' = [call EXCEPT ![c].pc = AfterBegin(err),
                                ![c].tx = IF err = Nil THEN FreshTx ELSE NoTx,
                                ![c].beginRet = err,
                                ![c].nBegin = @ + 1,
                                ![c].result = IF AfterBegin(err) = "Returned"
                                              THEN ResultAfterBegin(err) ELSE @]
        /\ txState' = IF err = Nil THEN [txState EXCEPT ![FreshTx] = "open"] ELSE txState
    /\ UNCHANGED <<registryVars, last, registered, txWrites, db>>

\* Mutant: the scope is given a copy of the runner's map.
DoInvoke_copiesMap(c) ==
    /\ call[c].pc = "Begun"
    /\ LET m == CHOOSE x \in MapIds \ (Held(call) \cup {repositories}) : TRUE IN
        /\ heap' = [heap EXCEPT ![m] = heap[repositories]]
        /\ call' = [call EXCEPT ![c].pc = "Running",
                                ![c].scope = NewTransaction(call[c].tx, m),
                                ![c].nFn = @ + 1]
    /\ UNCHANGED <<repositories, last, registered, dbVars>>

\* Mutant: line 138 without the defer keyword: Rollback is called right after
\* BeginTx, before fn.
DoInvoke_rollbackFirst(c) ==
    /\ call[c].pc = "Begun"
    /\ txState' = [txState EXCEPT ![call[c].tx] = "rolledback"]
    /\ call' = [call EXCEPT ![c].pc = "Running",
                            ![c].scope = NewTransaction(call[c].tx, repositories),
                            ![c].nFn = @ + 1,
                            ![c].nRollback = @ + 1,
                            ![c].rollbackRet = Nil]
    /\ UNCHANGED <<registryVars, last, registered, txWrites, db>>

\* uow.go:140: build the scope and call fn with it.
DoInvoke(c) ==
    /\ call[c].pc = "Begun"
    /\ call' = [call EXCEPT ![c].pc = "Running",
                            ![c].scope = NewTransaction(call[c].tx, repositories),
                            ![c].nFn = @ + 1]
    /\ UNCHANGED <<registryVars, last, registered, dbVars>>

\* fn calls tx.Get(name) and keeps what it returns.
FnGet(c, name) ==
    /\ call[c].pc = "Running"
    /\ call[c].ops < MaxFnOps
    /\ LET r == TransactionGet(call[c].scope, name, call[c].made) IN
        call' = [call EXCEPT ![c].ops = @ + 1,
                             ![c].lastErr = r.err,
                             ![c].made = IF r.err = Nil THEN @ + 1 ELSE @,
                             ![c].repository = r.repository]
    /\ UNCHANGED <<registryVars, last, registered, dbVars>>

\* fn calls GetAs[T](tx, name) and keeps what it returns.
FnGetAs(c, name, T) ==
    /\ call[c].pc = "Running"
    /\ call[c].ops < MaxFnOps
    /\ LET r == GetAs(call[c].scope, name, T, call[c].made) IN
        call' = [call EXCEPT ![c].ops = @ + 1,
                             ![c].lastErr = r.err,
                             ![c].made = r.made,
                             ![c].repository = r.repository]
    /\ UNCHANGED <<registryVars, last, registered, dbVars>>

\* fn runs a statement that writes row k through the repository it holds.
FnExec(c, k) ==
    /\ call[c].pc = "Running"
    /\ call[c].ops < MaxFnOps
    /\ call[c].repository # NoRepository
    /\ LET t == call[c].repository.tx IN
        IF TxOpen(t)
        THEN /\ txWrites' = [txWrites EXCEPT ![t] = @ \cup {k}]
             /\ call' = [call EXCEPT ![c].ops = @ + 1, ![c].lastErr = Nil]
        ELSE /\ UNCHANGED txWrites
             /\ call' = [call EXCEPT ![c].ops = @ + 1, ![c].lastErr = ErrTxDone]
    /\ UNCHANGED <<registryVars, last, registered, txState, db>>

\* The call record once fn is over: the scope and fn's locals are gone.
Leave(rec) ==
    [rec EXCEPT !.scope = NoScope, !.ops = 0, !.made = 0, !.lastErr = Nil,
                !.repository = NoRepository]

\* The errors Get and GetAs return.
GetErrors == {ErrRepositoryNotRegistered, ErrInvalidRepositoryType}

\* fn returns nil, an error of its own, or the error Get or GetAs gave it.
FnReturn(c, err) ==
    /\ call[c].pc = "Running"
    /\ err \in {Nil, ErrFn, call[c].lastErr}
    /\ call' = [call EXCEPT ![c] = [Leave(@) EXCEPT
                        !.pc = AfterFn(err),
                        !.fnRet = err,
                        !.result = IF AfterFn(err) = "Deferred"
                                   THEN ResultAfterFn(err) ELSE @]]
    /\ heap' = Collect(heap, repositories, call')
    /\ UNCHANGED <<repositories, last, registered, dbVars>>

\* Mutant: Rollback is called on the error path only, not deferred, so a panic
\* passes it by.
FnPanic_notDeferred(c) ==
    /\ call[c].pc = "Running"
    /\ call' = [call EXCEPT ![c] = [Leave(@) EXCEPT !.pc = "Panicked", !.fnRet = Panic]]
    /\ heap' = Collect(heap, repositories, call')
    /\ UNCHANGED <<repositories, last, registered, dbVars>>

\* fn panics: Do unwinds through its deferred call.
FnPanic(c) ==
    /\ call[c].pc = "Running"
    /\ call' = [call EXCEPT ![c] = [Leave(@) EXCEPT !.pc = "Deferred", !.fnRet = Panic]]
    /\ heap' = Collect(heap, repositories, call')
    /\ UNCHANGED <<repositories, last, registered, dbVars>>

\* What tx.Commit() can do on handle t: return nil with the writes stored; fail
\* with nothing stored, leaving the handle finished or (the context was
\* cancelled) still open; or, on a finished handle, return ErrTxDone.
CommitOutcomes(t) ==
    IF TxOpen(t)
    THEN {[ret |-> Nil, state |-> "committed"],
          [ret |-> ErrCommit, state |-> "aborted"],
          [ret |-> ErrCommit, state |-> "open"]}
    ELSE {[ret |-> ErrTxDone, state |-> IF t = NoTx THEN "unused" ELSE txState[t]]}

\* What tx.Rollback() can do on handle t: on an open handle the writes are
\* discarded and the handle is finished, whether it reports success or an
\* error; on a finished handle it changes nothing and returns ErrTxDone.
RollbackOutcomes(t) ==
    IF TxOpen(t)
    THEN {[ret |-> Nil, state |-> "rolledback"],
          [ret |-> ErrRollback, state |-> "aborted"]}
    ELSE {[ret |-> ErrTxDone, state |-> IF t = NoTx THEN "unused" ELSE txState[t]]}

\* The handles' states and pending writes once handle t is in state st.
SetTx(t, st) ==
    /\ txState' = IF t = NoTx THEN txState ELSE [txState EXCEPT ![t] = st]
    /\ txWrites' = IF t # NoTx /\ st \in {"rolledback", "aborted", "gone"}
                   THEN [txWrites EXCEPT ![t] = {}] ELSE txWrites

\* uow.go:145-146: tx.Commit(), and return what it returned.
DoCommit(c) ==
    /\ call[c].pc = "Committing"
    /\ \E out \in CommitOutcomes(call[c].tx) :
        /\ SetTx(call[c].tx, out.state)
        /\ db' = IF out.ret = Nil THEN Apply(call[c].tx) ELSE db
        /\ call' = [call EXCEPT ![c].pc = "Deferred",
                                ![c].commitRet = out.ret,
                                ![c].nCommit = @ + 1,
                                ![c].result = ResultAfterCommit(out.ret)]
    /\ UNCHANGED <<registryVars, last, registered>>

\* Mutant: Rollback is not deferred but called in the branch that returns
\* fn's error, so Do returns without it after a failed Commit.
DoDeferredRollback_fnErrorOnly(c) ==
    /\ call[c].pc = "Deferred"
    /\ IF IsError(call[c].fnRet)
       THEN \E out \in RollbackOutcomes(call[c].tx) :
                /\ SetTx(call[c].tx, out.state)
                /\ call' = [call EXCEPT ![c].pc = "Returned",
                                        ![c].rollbackRet = out.ret,
                                        ![c].nRollback = @ + 1]
       ELSE /\ call' = [call EXCEPT ![c].pc = IF call[c].fnRet = Panic
                                              THEN "Panicked" ELSE "Returned"]
            /\ UNCHANGED <<txState, txWrites>>
    /\ UNCHANGED <<registryVars, last, registered, db>>

\* uow.go:138: the deferred tx.Rollback(), run when Do returns or unwinds;
\* then Do returns to its caller, or the panic goes on.
DoDeferredRollback(c) ==
    /\ call[c].pc = "Deferred"
    /\ \E out \in RollbackOutcomes(call[c].tx) :
        /\ SetTx(call[c].tx, out.state)
        /\ call' = [call EXCEPT ![c].pc = IF call[c].fnRet = Panic
                                          THEN "Panicked" ELSE "Returned",
                                ![c].rollbackRet = out.ret,
                                ![c].nRollback = @ + 1,
                                ![c].result = ResultAfterRollback(@, out.ret)]
    /\ UNCHANGED <<registryVars, last, registered, db>>

\* The caller is done with what Do returned (or with the panic); nothing
\* refers to the call's handle any more.
Discard(c) ==
    /\ call[c].pc \in {"Returned", "Panicked"}
    /\ call' = [call EXCEPT ![c] = [IdleCall EXCEPT !.pc = "Done"]]
    /\ SetTx(call[c].tx, "gone")
    /\ UNCHANGED <<registryVars, last, registered, db>>

\* The calls a goroutine is busy with: begun, or returned and not yet
\* discarded by its caller.
Busy == {c \in Calls : call[c].pc \notin {"Idle", "Done"}}

\* ---------------------------------------------------------------- claims on Spec
\* (Spec, the specification of concurrent Do calls, is defined below.)
\* The handle of call c is finished without its writes stored.
NotStored(c) ==
    /\ txState[call[c].tx] \in {"rolledback", "aborted"}
    /\ \A k \in Keys : db[k] # call[c].tx

\* C1: when begin succeeded and fn returns an error e, Commit is never called
\* on the call's handle, Do's result is e itself from the moment fn returns,
\* and when Do has returned the rollback has been attempted once and the
\* handle is finished with none of its writes stored.
C1_FnErrorRollsBack ==
    \A c \in Calls :
        IsError(call[c].fnRet) =>
            /\ call[c].pc \in {"Deferred", "Returned"}
            /\ call[c].nCommit = 0
            /\ call[c].commitRet = NotYet
            /\ call[c].result = call[c].fnRet
            /\ call[c].pc = "Returned" =>
                    /\ call[c].nRollback = 1
                    /\ NotStored(c)

C1_Witness ==
    \E c \in Calls :
        /\ call[c].pc = "Returned"
        /\ call[c].fnRet = ErrFn
        /\ call[c].result = ErrFn
        /\ txState[call[c].tx] = "rolledback"

\* C2: when begin succeeded and fn returns nil, Commit is called exactly once
\* and Do returns what Commit returned: nil when it succeeded, the commit
\* error when it failed. Do returns nil only if its handle was committed.
C2_CommitOnceAndReturnIt ==
    \A c \in Calls :
        /\ call[c].nCommit <= 1
        /\ call[c].fnRet = Nil =>
                /\ call[c].pc \in {"Committing", "Deferred", "Returned"}
                /\ call[c].pc = "Committing" => call[c].nCommit = 0
                /\ call[c].pc \in {"Deferred", "Returned"} =>
                        /\ call[c].nCommit = 1
                        /\ call[c].commitRet \in {Nil, ErrCommit}
                        /\ call[c].result = call[c].commitRet
        /\ (call[c].pc = "Returned" /\ call[c].result = Nil) =>
                /\ call[c].fnRet = Nil
                /\ call[c].commitRet = Nil
                /\ txState[call[c].tx] = "committed"

C2_Witness ==
    \E c \in Calls :
        /\ call[c].pc = "Returned"
        /\ call[c].fnRet = Nil
        /\ call[c].commitRet = ErrCommit
        /\ call[c].result = ErrCommit

\* A Do that has returned nil has its handle committed, and a Do that has
\* returned an error has a handle that is not committed and no write of which
\* is in the committed data.
AtomicResult ==
    \A c \in Calls :
        call[c].pc = "Returned" =>
            IF call[c].result = Nil
            THEN txState[call[c].tx] = "committed"
            ELSE call[c].tx # NoTx =>
                    /\ txState[call[c].tx] # "committed"
                    /\ \A k \in Keys : db[k] # call[c].tx

\* The committed data changes only in the step in which a call's Commit
\* succeeds, and then every row written through that call's handle, and no
\* other row, takes that call's write.
AtomicCommit ==
    db' # db =>
        \E c \in Calls :
            /\ call[c].pc = "Committing"
            /\ call'[c].commitRet = Nil
            /\ txState'[call[c].tx] = "committed"
            /\ \A k \in Keys :
                db'[k] = IF k \in txWrites[call[c].tx] THEN call[c].tx ELSE db[k]

\* A statement run inside a call's fn is written through that call's handle.
WritesThroughOwnHandle ==
    \A t \in TxIds :
        ~(txWrites'[t] \subseteq txWrites[t]) =>
            \E c \in Calls :
                /\ call[c].pc = "Running"
                /\ call[c].tx = t
                /\ call'[c].ops = call[c].ops + 1

\* C3: atomicity across Do calls. The committed data, which is what a later
\* Do observes, takes the writes of a call all at once when its Commit
\* succeeds, and that call returns nil; a call that returns an error leaves
\* none of its writes in the committed data.
C3_Atomicity ==
    /\ []AtomicResult
    /\ [][AtomicCommit /\ WritesThroughOwnHandle]_vars

\* Both calls wrote the row; the first returned nil and its write is stored,
\* the second returned an error.
C3_Witness ==
    \E c, d \in Calls :
        /\ call[c].pc = "Returned" /\ call[c].result = Nil
        /\ call[d].pc = "Returned" /\ call[d].result = ErrFn
        /\ txState[call[d].tx] = "rolledback"
        /\ \A k \in Keys : k \in txWrites[call[c].tx] /\ db[k] = call[c].tx

\* C4: once begin has succeeded, no exit of Do (return after an fn error,
\* return after a failed or successful Commit, panic of fn) leaves the handle
\* open: the deferred Rollback has been called once, and unless Commit
\* succeeded the handle is finished without its writes stored.
C4_RollbackOnEveryExit ==
    \A c \in Calls :
        (call[c].pc \in {"Returned", "Panicked"} /\ call[c].beginRet = Nil) =>
            /\ call[c].nRollback = 1
            /\ call[c].rollbackRet # NotYet
            /\ txState[call[c].tx] \in {"committed", "rolledback", "aborted"}
            /\ call[c].commitRet # Nil => NotStored(c)

C4_Witness ==
    \E c \in Calls :
        /\ call[c].pc = "Panicked"
        /\ call[c].nRollback = 1
        /\ txState[call[c].tx] = "rolledback"

\* C5: when BeginTx fails, Do returns that error, fn is never called (so no
\* scope is built) and neither Commit nor Rollback is called.
C5_BeginFailure ==
    \A c \in Calls :
        call[c].beginRet = ErrBegin =>
            /\ call[c].pc = "Returned"
            /\ call[c].result = ErrBegin
            /\ call[c].tx = NoTx
            /\ call[c].scope = NoScope
            /\ call[c].nFn = 0
            /\ call[c].nCommit = 0
            /\ call[c].nRollback = 0

C5_Witness ==
    \E c \in Calls :
        /\ call[c].pc = "Returned"
        /\ call[c].beginRet = ErrBegin
        /\ call[c].result = ErrBegin

\* C6 as stated: every failure of BeginTx, of Commit and of Rollback is what
\* Do returns.
C6_EveryFailureReturned ==
    \A c \in Calls :
        call[c].pc = "Returned" =>
            /\ call[c].beginRet = ErrBegin => call[c].result = ErrBegin
            /\ call[c].commitRet = ErrCommit => call[c].result = ErrCommit
            /\ call[c].rollbackRet = ErrRollback => call[c].result = ErrRollback

\* C6, amended: a failure of BeginTx or of Commit is what Do returns,
\* unchanged; BeginTx, Commit and Rollback are each called at most once per
\* Do (nothing is retried); a failure of the deferred Rollback is discarded,
\* Do never returns it.
C6_BeginCommitFailureReturned ==
    \A c \in Calls :
        /\ call[c].nBegin <= 1 /\ call[c].nCommit <= 1 /\ call[c].nRollback <= 1
        /\ call[c].pc = "Returned" =>
            /\ call[c].beginRet = ErrBegin => call[c].result = ErrBegin
            /\ call[c].commitRet = ErrCommit => call[c].result = ErrCommit
            /\ call[c].result # ErrRollback

\* Commit failed, then the deferred Rollback failed too.
C6_Witness ==
    \E c \in Calls :
        /\ call[c].pc = "Returned"
        /\ call[c].commitRet = ErrCommit
        /\ call[c].rollbackRet = ErrRollback
        /\ call[c].result = ErrCommit

\* C7: a failing deferred Rollback never changes what Do returns: after an
\* fn error Do still returns fn's error, after a Commit error the commit
\* error.
C7_RollbackFailureMasksNothing ==
    \A c \in Calls :
        (call[c].pc = "Returned" /\ call[c].rollbackRet \notin {NotYet, Nil}) =>
            /\ IsError(call[c].fnRet) => call[c].result = call[c].fnRet
            /\ IsError(call[c].commitRet) => call[c].result = call[c].commitRet

C7_Witness ==
    \E c \in Calls :
        /\ call[c].pc = "Returned"
        /\ call[c].fnRet = ErrFn
        /\ call[c].rollbackRet = ErrRollback
        /\ call[c].result = ErrFn

\* C8: with Do calls running concurrently, each call calls BeginTx once and
\* builds one scope; the handles of different calls differ; a call's scope
\* wraps that call's handle, so no handle is held by two scopes; and every
\* repository a call's fn gets from its scope is bound to that call's handle.
C8_OneHandlePerCall ==
    /\ \A c \in Calls :
        /\ call[c].nBegin <= 1 /\ call[c].nFn <= 1
        /\ c \in InFlight => call[c].tx \in TxIds
        /\ call[c].pc = "Running" => call[c].scope.tx = call[c].tx
        /\ call[c].repository # NoRepository => call[c].repository.tx = call[c].tx
    /\ \A c, d \in Calls :
        (c # d /\ call[c].tx # NoTx) =>
            /\ call[d].tx # call[c].tx
            /\ call[d].scope.tx # call[c].tx
            /\ call[d].repository.tx # call[c].tx

\* Two calls are inside fn at once, each holding a repository.
C8_Witness ==
    \E c, d \in Calls :
        /\ c # d
        /\ call[c].pc = "Running" /\ call[c].repository # NoRepository
        /\ call[d].pc = "Running" /\ call[d].repository # NoRepository

\* ---------------------------------------------------------------- specifications
\* Go maps are not safe for concurrent use: Register, Remove and Clear write
\* u.repositories and every Get reads it, unsynchronised. A program without
\* a data race therefore either changes the registry from the goroutine of the
\* one Do in flight (inside fn) or between calls, or runs Do calls
\* concurrently while nobody changes the registry.

\* Concurrent Do calls, one per goroutine; registry calls only while no Do is
\* in flight.
Next ==
    \/ \E n \in Names, f \in Factories : InFlight = {} /\ Register(n, f)
    \/ \E n \in Names : InFlight = {} /\ Remove(n)
    \/ \E n \in Names : InFlight = {} /\ HasCall(n)
    \/ InFlight = {} /\ Clear
    \/ \E c \in Calls : Cardinality(Busy) < Cardinality(Goroutines) /\ DoBegin(c)
    \/ \E c \in Calls : DoInvoke(c)
    \/ \E c \in Calls, n \in Names : FnGet(c, n)
    \/ \E c \in Calls, k \in Keys : FnExec(c, k)
    \/ \E c \in Calls, err \in {Nil, ErrFn} \cup GetErrors : FnReturn(c, err)
    \/ \E c \in Calls : FnPanic(c)
    \/ \E c \in Calls : DoCommit(c)
    \/ \E c \in Calls : DoDeferredRollback(c)
    \/ \E c \in Calls : Discard(c)

Spec == Init /\ [][Next]_vars

\* The calls that are executing statements of Do itself (BeginTx has returned
\* and fn is not running): a registry call at such a moment could only come
\* from another goroutine, unsynchronised with Do's read of u.repositories.
InsideDo == {c \in Calls : call[c].pc \in {"Begun", "Committing", "Deferred"}}

\* One Do call at a time; registry calls between Do calls and while fn runs
\* (made by fn, or by a goroutine fn hands over to).
NextSeq ==
    \/ \E n \in Names, f \in Factories : InsideDo = {} /\ Register(n, f)
    \/ \E n \in Names : InsideDo = {} /\ Remove(n)
    \/ \E n \in Names : InsideDo = {} /\ HasCall(n)
    \/ InsideDo = {} /\ Clear
    \/ \E c \in Calls : Busy = {} /\ DoBegin(c)
    \/ \E c \in Calls : DoInvoke(c)
    \/ \E c \in Calls, n \in Names : FnGet(c, n)
    \/ \E c \in Calls, k \in Keys : FnExec(c, k)
    \/ \E c \in Calls, err \in {Nil, ErrFn} \cup GetErrors : FnReturn(c, err)
    \/ \E c \in Calls : FnPanic(c)
    \/ \E c \in Calls : DoCommit(c)
    \/ \E c \in Calls : DoDeferredRollback(c)
    \/ \E c \in Calls : Discard(c)

SpecSeq == Init /\ [][NextSeq]_vars

\* SpecSeq with an fn that also uses the typed lookup GetAs.
NextTyped ==
    \/ NextSeq
    \/ \E c \in Calls, n \in Names, T \in Types : FnGetAs(c, n, T)

SpecTyped == Init /\ [][NextTyped]_vars

\* Do is straight-line code after fn: once fn has returned, the Commit call
\* and the deferred Rollback call are made, and each returns.
LiveSpec ==
    /\ SpecSeq
    /\ \A c \in Calls : WF_vars(DoCommit(c)) /\ WF_vars(DoDeferredRollback(c))

\* ---------------------------------------------------------------- further claims
\* (C9 on LiveSpec; C10-C14, C16 and C20 on SpecSeq; C15 and C19 on SpecTyped;
\* C17 and C18 on Spec.)
\* The terminal states of a Do call, read off what happened to its handle:
\* no handle because BeginTx failed; handle committed; handle not
\* committed, finished, and the rollback attempted.
BeginFailed(c) ==
    /\ call[c].pc = "Returned"
    /\ call[c].beginRet = ErrBegin
    /\ call[c].tx = NoTx

Committed(c) ==
    /\ call[c].pc = "Returned"
    /\ call[c].tx # NoTx
    /\ txState[call[c].tx] = "committed"

RolledBack(c) ==
    /\ call[c].pc = "Returned"
    /\ call[c].tx # NoTx
    /\ txState[call[c].tx] \in {"rolledback", "aborted"}
    /\ call[c].nRollback = 1

Terminal(c) ==
    Cardinality({b \in {"BeginFailed", "Committed", "RolledBack"} :
        \/ b = "BeginFailed" /\ BeginFailed(c)
        \/ b = "Committed" /\ Committed(c)
        \/ b = "RolledBack" /\ RolledBack(c)}) = 1

\* fn has returned, nil or an error, and Do has not returned yet.
FnReturned(c) ==
    /\ call[c].pc \in {"Committing", "Deferred"}
    /\ call[c].fnRet # Panic

\* C9: a Do whose fn returns ends, and a Do that has returned is in exactly
\* one of the states Committed, RolledBack, BeginFailed, also when its Commit
\* failed; BeginFailed is entered only from Idle, by a failing BeginTx.
C9_EveryDoEnds ==
    /\ \A c \in Calls : FnReturned(c) ~> (call[c].pc = "Returned" /\ Terminal(c))
    /\ [](\A c \in Calls : call[c].pc = "Returned" => Terminal(c))
    /\ [][\A c \in Calls : (BeginFailed(c)' /\ ~BeginFailed(c)) => call[c].pc = "Idle"]_vars

\* A Do has returned after its Commit failed and left the handle open.
C9_Witness ==
    \E c \in Calls :
        /\ RolledBack(c)
        /\ call[c].commitRet = ErrCommit
        /\ call[c].rollbackRet \in {Nil, ErrRollback}

\* C10: Register(n, f) with n unbound returns nil, and then Has(n) holds and
\* n is bound to f; Register(n, f) with n bound returns
\* ErrRepositoryAlreadyRegistered and changes no binding.
C10_Register ==
    [][\A n \in Names, f \in Factories :
        Register(n, f) =>
            IF Has(n)
            THEN /\ last'.ret = ErrRepositoryAlreadyRegistered
                 /\ repositories' = repositories
                 /\ heap'[repositories'] = heap[repositories]
            ELSE /\ last'.ret = Nil
                 /\ Has(n)'
                 /\ heap'[repositories'][n] = f]_vars

\* A Register has just been refused, with both names bound.
C10_Witness ==
    /\ last = [op |-> "Register", ret |-> ErrRepositoryAlreadyRegistered]
    /\ heap[repositories]["ProductRepository"] = "NewProductRepository"
    /\ heap[repositories]["OrderRepository"] = "NewOrderRepository"

\* C11: Remove(n) with n bound returns nil, and then Has(n) is false;
\* Remove(n) with n unbound returns ErrRepositoryNotRegistered and changes no
\* binding.
C11_Remove ==
    [][\A n \in Names :
        Remove(n) =>
            IF Has(n)
            THEN /\ last'.ret = Nil
                 /\ ~Has(n)'
            ELSE /\ last'.ret = ErrRepositoryNotRegistered
                 /\ repositories' = repositories
                 /\ heap'[repositories'] = heap[repositories]]_vars

\* A Remove has just been refused while the other name is bound.
C11_Witness ==
    /\ last = [op |-> "Remove", ret |-> ErrRepositoryNotRegistered]
    /\ \E n, m \in Names : Has(n) /\ ~Has(m)

\* C12: Clear returns without an error and leaves the runner with a map (not
\* nil) in which no name is bound; a Register right after it succeeds for any
\* name; and the scope a Do builds resolves exactly the names registered, and
\* not removed, since the last Clear, each to the factory registered.
C12_Clear ==
    /\ [][Clear =>
            /\ last'.ret = Nil
            /\ repositories' \in MapIds
            /\ \A n \in Names : ~Has(n)']_vars
    /\ [][\A n \in Names, f \in Factories :
            (last.op = "Clear" /\ Register(n, f)) =>
                /\ last'.ret = Nil
                /\ heap'[repositories'][n] = f]_vars
    /\ [][\A c \in Calls :
            DoInvoke(c) =>
                \A n \in Names :
                    heap'[call'[c].scope.repositories][n] = registered[n]]_vars

\* Clear has just run on a registry with both names bound (the scope of the
\* Do in flight still holds them), and the runner has none.
C12_Witness ==
    /\ last = [op |-> "Clear", ret |-> Nil]
    /\ \A n \in Names : ~Has(n)
    /\ \E c \in Calls :
        /\ call[c].pc = "Running"
        /\ \A n \in Names : Bound(call[c].scope.repositories, n)

\* C13: Get(n) on a scope: when n is bound in the map the scope holds, the
\* factory bound to n is called with the scope's handle and Get returns what
\* it built and a nil error; when n is not bound, Get returns
\* ErrRepositoryNotRegistered and a nil repository, and no factory is called.
C13_ScopeGet ==
    [][\A c \in Calls, n \in Names :
        FnGet(c, n) =>
            IF Bound(call[c].scope.repositories, n)
            THEN /\ call'[c].lastErr = Nil
                 /\ call'[c].repository.factory = heap[call[c].scope.repositories][n]
                 /\ call'[c].repository.tx = call[c].scope.tx
                 /\ call'[c].made = call[c].made + 1
            ELSE /\ call'[c].lastErr = ErrRepositoryNotRegistered
                 /\ call'[c].repository = NoRepository
                 /\ call'[c].made = call[c].made]_vars

\* fn got a repository, and then asked for a name that is not bound.
C13_Witness ==
    \E c \in Calls :
        /\ call[c].pc = "Running"
        /\ call[c].made = 1
        /\ call[c].ops = 2
        /\ call[c].lastErr = ErrRepositoryNotRegistered
        /\ call[c].repository = NoRepository

\* C14: no caching. Every successful Get on a scope calls the factory: the
\* k-th successful Get returns the k-th instance built in that scope, which
\* no earlier Get returned, and every instance is built with the scope's
\* handle.
C14_NoCaching ==
    /\ [][\A c \in Calls, n \in Names :
            (FnGet(c, n) /\ call'[c].lastErr = Nil) =>
                /\ call'[c].made = call[c].made + 1
                /\ call'[c].repository.id = call'[c].made
                /\ call'[c].repository.id > call[c].made
                /\ call'[c].repository.id # call[c].repository.id
                /\ call'[c].repository.tx = call[c].scope.tx]_vars
    /\ [](\A c \in Calls :
            call[c].repository # NoRepository =>
                /\ call[c].repository.id = call[c].made
                /\ call[c].repository.tx = call[c].tx)

\* fn has called Get twice with success and holds the second instance.
C14_Witness ==
    \E c \in Calls :
        /\ call[c].pc = "Running"
        /\ call[c].made = 2
        /\ call[c].repository.id = 2
        /\ call[c].repository.tx = call[c].tx

\* C15: GetAs[T](scope, n) returns ErrRepositoryNotRegistered when n is not
\* bound, ErrInvalidRepositoryType when n is bound and what its factory
\* builds is not a T, and the repository with a nil error when it is a T.
\* When it fails it returns the zero T, and the bindings, the handle (open,
\* neither committed nor rolled back), the writes made through it and the
\* committed data are as before the call.
C15_GetAs ==
    [][\A c \in Calls :
        (call[c].pc = "Running" /\ call'[c].ops # call[c].ops) =>
            \A n \in Names, T \in Types :
                FnGetAs(c, n, T) =>
                    LET m == call[c].scope.repositories IN
                    /\ IF ~Bound(m, n)
                       THEN call'[c].lastErr = ErrRepositoryNotRegistered
                       ELSE IF T \notin {TypeOf(heap[m][n]), "Repository"}
                            THEN call'[c].lastErr = ErrInvalidRepositoryType
                            ELSE /\ call'[c].lastErr = Nil
                                 /\ call'[c].repository.factory = heap[m][n]
                                 /\ call'[c].repository.tx = call[c].scope.tx
                    /\ call'[c].lastErr # Nil =>
                            /\ call'[c].repository = NoRepository
                            /\ heap' = heap /\ repositories' = repositories
                            /\ txState' = txState /\ txState'[call[c].tx] = "open"
                            /\ txWrites' = txWrites /\ db' = db
                            /\ call'[c].pc = "Running" /\ call'[c].tx = call[c].tx]_vars

\* GetAs has just refused a repository of the wrong type, after a GetAs that
\* succeeded, in an open transaction and with a row committed earlier.
C15_Witness ==
    \E c \in Calls :
        /\ call[c].pc = "Running"
        /\ call[c].lastErr = ErrInvalidRepositoryType
        /\ call[c].repository = NoRepository
        /\ call[c].made = 2
        /\ txState[call[c].tx] = "open"
        /\ \E k \in Keys : db[k] # Untouched

\* What Get answers on the scope of call c, name by name.
Answers(c) == heap[call[c].scope.repositories]

\* The scope of call c exists before and after the step.
ScopeLives(c) == call[c].pc = "Running" /\ call'[c].pc = "Running"

\* C16 as stated: while a scope exists, no step changes, for any name, whether
\* Get finds it bound.
C16_ScopeIsSnapshot ==
    [][\A c \in Calls :
        ScopeLives(c) =>
            \A n \in Names : (Answers(c)'[n] = NoFactory) <=> (Answers(c)[n] = NoFactory)]_vars

\* C16, amended: the scope holds the runner's map, not a copy. A Clear after
\* the scope was created changes nothing the scope answers. A Register or a
\* Remove that succeeds on the runner while the runner still has the map the
\* scope was created with (no Clear since) shows through the scope: Get(n)
\* then finds the factory registered, or finds n unbound. Nothing else
\* changes what the scope answers.
C16_ScopeSharesMap ==
    [][\A c \in Calls :
        /\ (call[c].pc = "Begun" /\ call'[c].pc = "Running") =>
            /\ call'[c].scope.repositories = repositories
            /\ Answers(c)' = heap[repositories]
        /\ ScopeLives(c) =>
            /\ call'[c].scope = call[c].scope
            /\ Clear => Answers(c)' = Answers(c)
            /\ \A n \in Names, f \in Factories :
                (Register(n, f) /\ last'.ret = Nil /\ call[c].scope.repositories = repositories) =>
                    /\ Answers(c)[n] = NoFactory
                    /\ Answers(c)' = [Answers(c) EXCEPT ![n] = f]
            /\ \A n \in Names :
                (Remove(n) /\ last'.ret = Nil /\ call[c].scope.repositories = repositories) =>
                    /\ Answers(c)[n] # NoFactory
                    /\ Answers(c)' = [Answers(c) EXCEPT ![n] = NoFactory]
            /\ Answers(c)' # Answers(c) =>
                    \/ \E n \in Names, f \in Factories : Register(n, f)
                    \/ \E n \in Names : Remove(n)]_vars

\* A Get of this fn found a name unbound; a Register on the runner followed,
\* and the scope now finds every name bound.
C16_Witness ==
    \E c \in Calls :
        /\ call[c].pc = "Running"
        /\ call[c].lastErr = ErrRepositoryNotRegistered
        /\ last = [op |-> "Register", ret |-> Nil]
        /\ call[c].scope.repositories = repositories
        /\ \A n \in Names : Answers(c)[n] # NoFactory

\* C17: a scope exists only inside its Do call, between the successful
\* BeginTx and the return of fn: while it exists (and so whenever fn calls
\* Get on it) it wraps the call's handle, BeginTx returned nil, Do has called
\* neither Commit nor Rollback on the handle, and the handle is open. fn keeps
\* no scope after it returns.
C17_ScopeWithinHandle ==
    /\ [](\A c \in Calls :
            /\ call[c].pc # "Running" => call[c].scope = NoScope
            /\ call[c].pc = "Running" =>
                    /\ call[c].beginRet = Nil
                    /\ call[c].scope.tx = call[c].tx
                    /\ call[c].tx \in TxIds
                    /\ call[c].nCommit = 0 /\ call[c].commitRet = NotYet
                    /\ call[c].nRollback = 0 /\ call[c].rollbackRet = NotYet
                    /\ txState[call[c].tx] = "open")
    /\ [][\A c \in Calls :
            (call[c].pc = "Running" /\ call'[c].ops # call[c].ops) =>
                /\ txState[call[c].scope.tx] = "open"
                /\ txState'[call[c].scope.tx] = "open"
                /\ \A d \in Calls : call'[d].nCommit = 0 \/ call'[d].tx # call[c].scope.tx]_vars

\* fn of one call is using its scope after another call's handle was
\* committed.
C17_Witness ==
    \E c \in Calls :
        /\ call[c].pc = "Running"
        /\ call[c].ops = MaxFnOps
        /\ txState[call[c].scope.tx] = "open"
        /\ \E t \in TxIds : txState[t] \in {"committed", "gone"}

\* C18: order of the steps of one Do call. fn is called only after BeginTx
\* returned nil; Commit is called only after fn returned nil; the deferred
\* Rollback is called only when fn is over (it returned, or it panicked) and,
\* if fn returned nil, after the Commit call. A handle is never both committed
\* and rolled back: after a successful Commit the Rollback call returns
\* ErrTxDone and changes neither the handle, the data nor Do's result, and a
\* handle that was rolled back is never committed.
C18_Order ==
    [][/\ \A c \in Calls :
            /\ call'[c].nFn = call[c].nFn + 1 =>
                    /\ call[c].pc = "Begun"
                    /\ call[c].nBegin = 1 /\ call[c].beginRet = Nil
                    /\ call[c].nCommit = 0 /\ call[c].nRollback = 0
            /\ call'[c].nCommit = call[c].nCommit + 1 =>
                    /\ call[c].pc = "Committing"
                    /\ call[c].nFn = 1 /\ call[c].fnRet = Nil
                    /\ call[c].nRollback = 0
            /\ call'[c].nRollback = call[c].nRollback + 1 =>
                    /\ call[c].pc = "Deferred"
                    /\ call[c].nFn = 1 /\ call[c].fnRet # NotYet
                    /\ call[c].nCommit = IF call[c].fnRet = Nil THEN 1 ELSE 0
                    /\ call[c].commitRet = Nil =>
                            /\ call'[c].rollbackRet = ErrTxDone
                            /\ call'[c].result = Nil /\ call[c].result = Nil
                            /\ txState'[call[c].tx] = "committed"
                            /\ dbVars' = dbVars
       /\ \A t \in TxIds :
            /\ txState[t] = "committed" => txState'[t] \in {"committed", "gone"}
            /\ txState[t] \in {"rolledback", "aborted"} => txState'[t] # "committed"]_vars

\* Do has returned nil: Commit succeeded, the deferred Rollback then found
\* the handle finished, and the row written is stored.
C18_Witness ==
    \E c \in Calls :
        /\ call[c].pc = "Returned"
        /\ call[c].commitRet = Nil
        /\ call[c].rollbackRet = ErrTxDone
        /\ call[c].result = Nil
        /\ txState[call[c].tx] = "committed"
        /\ \E k \in Keys : db[k] = call[c].tx

\* The bindings of the runner's registry.
Bindings == heap[repositories]

\* C19: frame. The runner's bindings change only in a step of Register,
\* Remove or Clear. A step of Has, of Get or GetAs on a scope, and every step
\* of Do (BeginTx failing or not, fn returning nil or an error or panicking,
\* Commit failing or not, the deferred Rollback) leaves every binding as it
\* was. A Register(n) or Remove(n) that returns nil leaves the binding of
\* every other name as it was, and one that is refused leaves all of them.
C19_Frame ==
    [][/\ Bindings' # Bindings =>
            \/ \E n \in Names, f \in Factories : Register(n, f)
            \/ \E n \in Names : Remove(n)
            \/ Clear
       /\ call' # call => (Bindings' = Bindings /\ repositories' = repositories)
       /\ last'.op = "Has" => (Bindings' = Bindings /\ repositories' = repositories)
       /\ last'.op \in {"Register", "Remove"} =>
            /\ repositories' = repositories
            /\ last'.ret # Nil => Bindings' = Bindings
            /\ Cardinality({n \in Names : Bindings'[n] # Bindings[n]}) <= 1
            /\ \A n \in Names, f \in Factories :
                    (Register(n, f) \/ Remove(n)) =>
                        \A m \in Names \ {n} : Bindings'[m] = Bindings[m]]_vars

\* A Remove has succeeded with the other name still bound, and a Do has since
\* run and returned a Commit error.
C19_Witness ==
    /\ last = [op |-> "Remove", ret |-> Nil]
    /\ \E n, m \in Names : Has(n) /\ ~Has(m)
    /\ \E c \in Calls : call[c].pc = "Returned" /\ call[c].commitRet = ErrCommit

\* The runner has made a new map since the scope of call c was created.
Detached(c) == call[c].scope.repositories # repositories

\* C20: a Clear while fn runs leaves the scope of that Do as it is: the scope
\* resolves after it every name it resolved before, to the same factory. From
\* then on the scope and the runner have different maps, so that no later
\* Register, Remove or Clear changes what the scope resolves; a scope sees
\* the bindings made after a Clear only if its Do began after that Clear.
C20_ClearDetaches ==
    [][\A c \in Calls :
        /\ ScopeLives(c) =>
            /\ Clear =>
                    /\ Answers(c)' = Answers(c)
                    /\ Detached(c)'
                    /\ \A n \in Names : ~Has(n)'
            /\ Detached(c) =>
                    /\ Answers(c)' = Answers(c)
                    /\ Detached(c)'
        /\ (call[c].pc = "Idle" /\ call'[c].pc = "Begun") => call'[c].scope = NoScope
        /\ (call[c].pc = "Begun" /\ call'[c].pc = "Running") =>
                /\ ~Detached(c)'
                /\ Answers(c)' = Bindings]_vars

\* fn got a repository from its scope; the runner was then cleared and the
\* name registered again with the other factory: the scope still resolves it
\* to the first.
C20_Witness ==
    \E c \in Calls, n \in Names :
        /\ call[c].pc = "Running"
        /\ Detached(c)
        /\ Answers(c)[n] = "NewProductRepository"
        /\ call[c].repository.factory = "NewProductRepository"
        /\ Bindings[n] = "NewOrderRepository"

\* C21: after any sequence of Register, Remove, Clear and Has calls (Do calls
\* in between or not), a name is bound exactly when a Register of it returned
\* nil and neither a Remove of it returning nil nor a Clear came after, and it
\* is bound to the factory of that Register; Has returns just that; and a
\* scope made from the runner at that moment, for any handle, resolves the
\* name to an instance built by that factory with that handle, or returns
\* ErrRepositoryNotRegistered.
C21_RegistryIsHistory ==
    /\ [](\A n \in Names :
            /\ Has(n) <=> registered[n] # NoFactory
            /\ Bindings[n] = registered[n]
            /\ \A t \in TxIds :
                TransactionGet(NewTransaction(t, repositories), n, 0) =
                    IF registered[n] # NoFactory
                    THEN [repository |-> [factory |-> registered[n], tx |-> t, id |-> 1],
                          err |-> Nil]
                    ELSE [repository |-> NoRepository,
                          err |-> ErrRepositoryNotRegistered])
    /\ [][\A n \in Names :
            (call' = call /\ HasCall(n)) =>
                last'.ret = IF registered[n] # NoFactory THEN "true" ELSE "false"]_vars
    /\ [][\A c \in Calls :
            (call[c].pc = "Begun" /\ call'[c].pc = "Running") =>
                \A n \in Names :
                    TransactionGet(call'[c].scope, n, 0).repository.factory = registered[n]]_vars

\* Has has just answered true for a name registered with the second factory
\* while the other name is not bound, and the fn running got an instance of
\* that factory from its scope.
C21_Witness ==
    \E c \in Calls, n \in Names :
        /\ last = [op |-> "Has", ret |-> "true"]
        /\ registered[n] = "NewOrderRepository"
        /\ \A m \in Names \ {n} : ~Has(m)
        /\ call[c].pc = "Running"
        /\ ~Detached(c)
        /\ call[c].repository.factory = "NewOrderRepository"
====
